---- MODULE Spec2Model ----
(***************************************************************************)
(* Model of the authentication service of Smart_Complaint_System:          *)
(* db.py (Database, AuthService, UserService) and backend/main.py          *)
(* (register, login, get_current_user / get_profile).                      *)
(*                                                                         *)
(* The store is a PostgreSQL table `users` whose email column is UNIQUE.   *)
(* Each request handler runs in its own thread; a handler is split at the  *)
(* points where it talks to the database, so that two handlers interleave  *)
(* exactly where two transactions can.                                     *)
(***************************************************************************)
EXTENDS Integers, Sequences, FiniteSets, TLC

\* the keys of the dicts, rows and claims the program builds
Keys ==
    DOMAIN
    [access_token |-> TRUE, alg |-> TRUE, body |-> TRUE, created_at |-> TRUE,
     detail |-> TRUE, digest |-> TRUE, email |-> TRUE, error |-> TRUE,
     exc |-> TRUE, exp |-> TRUE, expires_in |-> TRUE, full_name |-> TRUE,
     garbage |-> TRUE, header |-> TRUE, iat |-> TRUE, id |-> TRUE, idle |-> TRUE,
     is_active |-> TRUE, keys |-> TRUE, msg |-> TRUE, none |-> TRUE, ok |-> TRUE,
     op |-> TRUE, password |-> TRUE, password_hash |-> TRUE,
     payload |-> TRUE, rused |-> TRUE, salt |-> TRUE, signature |-> TRUE, status |-> TRUE,
     token |-> TRUE, token_type |-> TRUE, typ |-> TRUE, type |-> TRUE,
     updated_at |-> TRUE, used |-> TRUE, user |-> TRUE, user_id |-> TRUE]

\* ------------------------------------------------------------------ bounds
MaxCalls == 3          \* handler invocations in one behaviour
MaxClock == 120        \* the clock stops advancing here (seconds)
TickSeconds == 60      \* granularity of the clock (seconds)

\* ------------------------------------------------------- program constants
SecondsPerMinute == 60 \* timedelta(minutes=..) and JWT_EXPIRATION_MINUTES * 60
MinConn == 1            \* SimpleConnectionPool(1, 20, ..)
MaxConn == 20           \* SimpleConnectionPool(1, 20, ..)

\* ------------------------------------------------------------------ inputs
Procs == {"p1", "p2"}                  \* concurrent request threads
EmailInputs == {<<"a", "x">>, <<"A", "X">>, <<"b", "x">>}
PasswordInputs == {"pw1", "pw2"}
NameInputs == {<<" ", "n", " ">>}
Salts == {"s1", "s2"}                  \* outcomes of bcrypt.gensalt()
TtlInputs == {0, 1}                    \* values of JWT_EXPIRATION_MINUTES
TamperKinds == {"none", "signature", "secret", "algorithm", "malformed"}

JWT_SECRET_KEY == "server-secret"
JWT_ALGORITHM == "HS256"

None == [none |-> TRUE]                \* Python's None
NoResp == [body |-> None,
           detail |-> "",
           status |-> 0]

VARIABLES
    users,                   \* committed rows of table users
    pending,                 \* per thread: the row INSERTed by its open transaction
    nextId,                  \* source of fresh uuids
    now,                     \* wall clock, seconds
    JWT_EXPIRATION_MINUTES,  \* configured time-to-live, minutes
    tokens,                  \* access tokens handed out to clients
    checkedOut,              \* connections taken from the pool and not returned
    _pool,                   \* Database._pool: the SimpleConnectionPool
    _key,                    \* per thread: the key _getkey gave to its getconn
    conn,                    \* per thread: the connection get_connection returned, 0: none
    tables,                  \* the schema of init_tables is committed in the database
    pc,                      \* per thread: where its handler stands
    req,                     \* per thread: the request being (or last) handled
    resp,                    \* per thread: the response of the last handled request
    calls                    \* handler invocations so far

\* the pool behind get_connection and return_connection, and what
\* Database.connect sets up with it
poolvars == <<_pool, _key, conn, tables>>

vars == <<users, pending, nextId, now, JWT_EXPIRATION_MINUTES, tokens,
          checkedOut, pc, req, resp, calls, poolvars>>

\* ------------------------------------------------------------ str methods
\* str.lower() on the characters the inputs use
LowerChar(c) ==
    CASE c = "A" -> "a"
      [] c = "B" -> "b"
      [] c = "X" -> "x"
      [] OTHER -> c

Lower(s) == [i \in 1..Len(s) |-> LowerChar(s[i])]

RECURSIVE LStrip(_)
LStrip(s) == IF s # <<>> /\ Head(s) = " " THEN LStrip(Tail(s)) ELSE s

RECURSIVE RStrip(_)
RStrip(s) ==
    IF s # <<>> /\ s[Len(s)] = " " THEN RStrip(SubSeq(s, 1, Len(s) - 1)) ELSE s

\* str.strip()
Strip(s) == RStrip(LStrip(s))

\* --------------------------------------------------------------- records
\* the keys of dict d without key k (del d[k])
Del(d, k) == [x \in (DOMAIN d) \ {k} |-> d[x]]

\* the columns cols of a row (a SELECT list, a RETURNING list)
Columns(row, cols) == [x \in cols |-> row[x]]

\* cursor.fetchone() on a result set
fetchone(rows) == IF rows = {} THEN None ELSE CHOOSE r \in rows : TRUE

ProfileColumns == {"id", "full_name", "email", "is_active", "created_at", "updated_at"}

\* ------------------------------------------------------- pydantic schemas
\* UserResponse(**user): the declared fields, extra keys are ignored
UserResponse(user) == [x \in ProfileColumns |-> user[x]]

TokenResponse(token_data, user_response) ==
    [access_token |-> token_data.access_token,
     expires_in |-> token_data.expires_in,
     token_type |-> token_data.token_type,
     user |-> user_response]

HTTPException(status_code, detail) ==
    [body |-> None,
     detail |-> detail,
     status |-> status_code]

Response(status_code, body) ==
    [body |-> body,
     detail |-> "",
     status |-> status_code]

\* ------------------------------------------------------------ AuthService
\* bcrypt.hashpw(password, salt): the salt is embedded in the digest
hash_password(password, salt) == [digest |-> <<salt, password>>,
                                  salt |-> salt]

\* bcrypt.checkpw: recompute with the embedded salt and compare
verify_password(password, hashed_password) ==
    hashed_password.digest = <<hashed_password.salt, password>>

\* the HMAC of header and payload under key
Sign(alg, payload, key) == <<alg, payload, key>>

\* jwt.encode(payload, key, algorithm)
jwt_encode(payload, key, algorithm) ==
    [header |-> [alg |-> algorithm, typ |-> "JWT"],
     payload |-> payload,
     signature |-> Sign(algorithm, payload, key)]

\* what a client (or attacker) may present instead of the token it was given
Tamper(token, kind) ==
    CASE kind = "signature" ->
            [token EXCEPT !.signature = Append(token.signature, "flipped")]
      [] kind = "secret" ->
            jwt_encode(token.payload, "other-secret", token.header.alg)
      [] kind = "algorithm" ->
            jwt_encode(token.payload, JWT_SECRET_KEY, "HS512")
      [] kind = "malformed" -> [garbage |-> TRUE]
      [] OTHER -> token

\* PyJWT's exp check with leeway 0: the token is expired once exp <= now
Expired(exp, clock) == exp <= clock

\* jwt.decode(token, key, algorithms) at time clock: structure, algorithm and
\* signature are verified first, the exp claim after them
jwt_decode(token, key, algorithms, clock) ==
    IF "header" \notin DOMAIN token
    THEN [error |-> "DecodeError",
          ok |-> FALSE]
    ELSE IF token.header.alg \notin algorithms
    THEN [error |-> "InvalidAlgorithmError",
          ok |-> FALSE]
    ELSE IF token.signature # Sign(token.header.alg, token.payload, key)
    THEN [error |-> "InvalidSignatureError",
          ok |-> FALSE]
    ELSE IF Expired(token.payload.exp, clock)
    THEN [error |-> "ExpiredSignatureError",
          ok |-> FALSE]
    ELSE [ok |-> TRUE, payload |-> token.payload]

\* isinstance(e, cls) for PyJWT's exception classes
IsInstance(e, cls) ==
    \/ e = cls
    \/ cls = "InvalidTokenError" /\
       e \in {"DecodeError", "InvalidAlgorithmError", "InvalidSignatureError",
              "ExpiredSignatureError"}

\* create_access_token forgetting to add the time-to-live to the expiry
create_access_token_no_ttl(user_id, email) ==
    LET payload == [email |-> email, exp |-> now, iat |-> now,
                    type |-> "access", user_id |-> user_id]
    IN [access_token |-> jwt_encode(payload, JWT_SECRET_KEY, JWT_ALGORITHM),
        expires_in |-> JWT_EXPIRATION_MINUTES * SecondsPerMinute,
        token_type |-> "bearer"]

\* AuthService.create_access_token at the current clock
create_access_token(user_id, email) ==
    LET expires_at == now + JWT_EXPIRATION_MINUTES * SecondsPerMinute
        payload == [email |-> email,
                    exp |-> expires_at,
                    iat |-> now,
                    type |-> "access",
                    user_id |-> user_id]
    IN [access_token |-> jwt_encode(payload, JWT_SECRET_KEY, JWT_ALGORITHM),
        expires_in |-> JWT_EXPIRATION_MINUTES * SecondsPerMinute,
        token_type |-> "bearer"]

\* decode_token with its except clauses in the other order: an
\* ExpiredSignatureError is an InvalidTokenError and is caught as one
decode_token_swapped(token) ==
    LET r == jwt_decode(token, JWT_SECRET_KEY, {JWT_ALGORITHM}, now)
    IN IF r.ok THEN r
       ELSE IF IsInstance(r.error, "InvalidTokenError")
       THEN [error |-> "ValueError", msg |-> "Invalid token", ok |-> FALSE]
       ELSE [error |-> "ValueError", msg |-> "Token has expired", ok |-> FALSE]

\* AuthService.decode_token at the current clock: the payload, or the
\* ValueError raised
decode_token(token) ==
    LET r == jwt_decode(token, JWT_SECRET_KEY, {JWT_ALGORITHM}, now)
    IN IF r.ok THEN r
       ELSE IF IsInstance(r.error, "ExpiredSignatureError")
       THEN [error |-> "ValueError",
             msg |-> "Token has expired",
             ok |-> FALSE]
       ELSE [error |-> "ValueError",
             msg |-> "Invalid token",
             ok |-> FALSE]

\* ------------------------------------------------------------ UserService
\* the existence check comparing the email as typed
existing_user_exact(email) ==
    fetchone({Columns(r, {"id"}) : r \in {u \in users : u.email = email}})

\* the existence check looking at active users only
existing_user_active_only(email) ==
    fetchone({Columns(r, {"id"}) :
                r \in {u \in users : u.email = Lower(email) /\ u.is_active}})

\* create_user's existence check: SELECT id FROM users WHERE email = lower(email)
existing_user(email) ==
    fetchone({Columns(r, {"id"}) : r \in {u \in users : u.email = Lower(email)}})

\* the INSERT storing the email as typed
InsertValues_keeps_case(full_name, email, password_hash) ==
    [email |-> email,
     full_name |-> Strip(full_name),
     password_hash |-> password_hash]

\* the values create_user INSERTs
InsertValues(full_name, email, password_hash) ==
    [email |-> Lower(email),
     full_name |-> Strip(full_name),
     password_hash |-> password_hash]

\* a users table whose email column is not UNIQUE
UniqueViolation_off(email) == FALSE

\* the UNIQUE constraint on users.email, against the committed rows
UniqueViolation(email) == \E u \in users : u.email = email

\* the unique index makes an INSERT wait for an open transaction that
\* inserted the same key
InsertBlocked(p, email) ==
    \E q \in Procs \ {p} : pending[q] # None /\ pending[q].email = email

\* the row an INSERT builds: column defaults fill id, is_active and the timestamps
NewRow(values) ==
    [created_at |-> now,
     email |-> values.email,
     full_name |-> values.full_name,
     id |-> nextId,
     is_active |-> TRUE,
     password_hash |-> values.password_hash,
     updated_at |-> now]

\* INSERT .. RETURNING id, full_name, email, is_active, created_at, updated_at
Returning(row) == Columns(row, ProfileColumns)

\* authenticate_user comparing the email as typed
authenticate_user_exact(email, password) ==
    LET user == fetchone({u \in users : u.email = email /\ u.is_active})
    IN IF user = None \/ ~verify_password(password, user.password_hash)
       THEN None
       ELSE Del(user, "password_hash")

\* authenticate_user returning the row as selected
authenticate_user_keeps_hash(email, password) ==
    LET user == fetchone({u \in users : u.email = Lower(email) /\ u.is_active})
    IN IF user = None \/ ~verify_password(password, user.password_hash)
       THEN None
       ELSE user

\* UserService.authenticate_user on the committed table
authenticate_user(email, password) ==
    LET user == fetchone({u \in users : u.email = Lower(email) /\ u.is_active})
    IN IF user = None \/ ~verify_password(password, user.password_hash)
       THEN None
       ELSE Del(user, "password_hash")

\* get_user_by_id without the is_active condition
get_user_by_id_any(user_id) ==
    fetchone({Columns(u, ProfileColumns) : u \in {r \in users : r.id = user_id}})

\* UserService.get_user_by_id
get_user_by_id(user_id) ==
    fetchone({Columns(u, ProfileColumns) :
                u \in {r \in users : r.id = user_id /\ r.is_active}})

\* get_user_by_email without the is_active condition
get_user_by_email_any(email) ==
    fetchone({Columns(u, ProfileColumns) : u \in {r \in users : r.email = Lower(email)}})

\* UserService.get_user_by_email
get_user_by_email(email) ==
    fetchone({Columns(u, ProfileColumns) :
                u \in {r \in users : r.email = Lower(email) /\ r.is_active}})

\* ------------------------------------------------------------- main.py
\* the body of get_current_user's try block: the user it returns, or the
\* exception it raises
current_user_try(token) ==
    LET d == decode_token(token)
    IN IF ~d.ok THEN [exc |-> "ValueError", msg |-> d.msg]
       ELSE IF "user_id" \notin DOMAIN d.payload
       THEN [exc |-> "HTTPException", msg |-> "Invalid token"]
       ELSE LET user == get_user_by_id(d.payload.user_id)
            IN IF user = None
               THEN [exc |-> "HTTPException", msg |-> "User not found"]
               ELSE [exc |-> "", user |-> user]

\* get_current_user followed by get_profile, as a function of the state.
\* HTTPException is an Exception and is not a ValueError: the 401 raised
\* inside the try block is caught by the second except clause.
get_current_user(token) ==
    LET r == current_user_try(token)
    IN IF r.exc = "ValueError" THEN HTTPException(401, r.msg)
       ELSE IF r.exc # "" THEN HTTPException(401, "Authentication failed")
       ELSE Response(200, UserResponse(r.user))

\* login answering 404 when the email is unknown
login_leaky(email, password) ==
    LET user == authenticate_user(email, password)
    IN IF get_user_by_email(email) = None
       THEN HTTPException(404, "User not found")
       ELSE IF user = None
       THEN HTTPException(401, "Invalid email or password")
       ELSE Response(200, TokenResponse(create_access_token(user.id, user.email),
                                        UserResponse(user)))

\* login: authenticate_user, then the token and the response
login(email, password) ==
    LET user == authenticate_user(email, password)
    IN IF user = None
       THEN HTTPException(401, "Invalid email or password")
       ELSE Response(200, TokenResponse(create_access_token(user.id, user.email),
                                        UserResponse(user)))

\* register's answer once create_user has returned user
register_response(user) ==
    Response(201, TokenResponse(create_access_token(user.id, user.email),
                                UserResponse(user)))

\* ---------------------------------------------------------------- state
TypeOK ==
    /\ \A p \in Procs : DOMAIN req[p] \subseteq Keys /\ DOMAIN resp[p] \subseteq Keys
    /\ \A u \in users : DOMAIN u \subseteq Keys
    /\ pc \in [Procs -> {"idle", "select", "insert", "commit", "authenticate", "resolve",
                          "getkey", "connect", "holding",
                          "connect_test", "new_pool", "init_tables", "execute",
                          "return_tables", "connected"}]
    /\ _pool = None \/ DOMAIN _pool = {"idle", "keys", "rused", "used"}
    /\ tables \in BOOLEAN
    /\ _key \in [Procs -> Nat]
    /\ conn \in [Procs -> Nat]
    /\ nextId \in Nat
    /\ now \in 0..MaxClock
    /\ checkedOut \in Nat
    /\ calls \in 0..MaxCalls
    /\ JWT_EXPIRATION_MINUTES \in TtlInputs

\* the service after startup: the pool is connected, the table exists and is empty
Init ==
    /\ users = {}
    /\ pending = [p \in Procs |-> None]
    /\ nextId = 1
    /\ now = 0
    /\ JWT_EXPIRATION_MINUTES \in TtlInputs
    /\ tokens = {}
    /\ checkedOut = 0
    /\ _pool = [idle |-> <<1>>, keys |-> 1, rused |-> <<>>, used |-> <<>>]
    /\ _key = [p \in Procs |-> 0]
    /\ conn = [p \in Procs |-> 0]
    /\ tables = TRUE
    /\ pc = [p \in Procs |-> "idle"]
    /\ req = [p \in Procs |-> None]
    /\ resp = [p \in Procs |-> NoResp]
    /\ calls = 0

\* Database.get_connection as the handlers see it: the pool is connected and
\* getconn hands out a connection, one more is out of the pool (PoolSpec
\* below follows the call through the pool)
get_connection == checkedOut' = checkedOut + 1

\* Database.return_connection as the handlers see it: putconn takes the
\* connection back
return_connection == checkedOut' = checkedOut - 1

\* a handler ends and its response goes to the caller
Finish(p, response) ==
    /\ resp' = [resp EXCEPT ![p] = response]
    /\ pc' = [pc EXCEPT ![p] = "idle"]

\* a request arrives at thread p
Call(p, request, first) ==
    /\ pc[p] = "idle"
    /\ calls < MaxCalls
    /\ calls' = calls + 1
    /\ req' = [req EXCEPT ![p] = request]
    /\ resp' = [resp EXCEPT ![p] = NoResp]
    /\ pc' = [pc EXCEPT ![p] = first]
    /\ UNCHANGED <<users, pending, nextId, now, JWT_EXPIRATION_MINUTES, tokens>>

\* POST /auth/register: register() calls create_user, which takes a
\* connection and a cursor
Register(p, full_name, email, password) ==
    /\ Call(p, [email |-> email, full_name |-> full_name, op |-> "register",
                password |-> password], "select")
    /\ get_connection
    /\ UNCHANGED poolvars

\* create_user: the existence check
CreateUserSelect(p) ==
    /\ pc[p] = "select"
    /\ IF existing_user(req[p].email) # None
       THEN \* ValueError: rollback; finally: release; register answers 400
            /\ Finish(p, HTTPException(400, "Email already registered"))
            /\ return_connection
            /\ UNCHANGED <<users, pending, nextId, tokens>>
       ELSE /\ pc' = [pc EXCEPT ![p] = "insert"]
            /\ UNCHANGED <<users, pending, nextId, tokens, resp, checkedOut>>
    /\ UNCHANGED <<now, JWT_EXPIRATION_MINUTES, req, calls>>
    /\ UNCHANGED poolvars

\* create_user on a connection in autocommit mode: the INSERT is committed
\* at once
CreateUserInsert_autocommit(p) ==
    /\ pc[p] = "insert"
    /\ \E salt \in Salts :
        LET values == InsertValues(req[p].full_name, req[p].email,
                                   hash_password(req[p].password, salt))
        IN /\ ~InsertBlocked(p, values.email)
           /\ IF UniqueViolation(values.email)
              THEN /\ Finish(p, HTTPException(500, "Registration failed"))
                   /\ return_connection
                   /\ UNCHANGED <<users, pending, nextId>>
              ELSE /\ pending' = [pending EXCEPT ![p] = NewRow(values)]
                   /\ users' = users \cup {NewRow(values)}
                   /\ nextId' = nextId + 1
                   /\ pc' = [pc EXCEPT ![p] = "commit"]
                   /\ UNCHANGED <<resp, checkedOut>>
    /\ UNCHANGED <<now, JWT_EXPIRATION_MINUTES, tokens, req, calls>>
    /\ UNCHANGED poolvars

\* create_user: hash the password and INSERT
CreateUserInsert(p) ==
    /\ pc[p] = "insert"
    /\ \E salt \in Salts :
        LET values == InsertValues(req[p].full_name, req[p].email,
                                   hash_password(req[p].password, salt))
        IN /\ ~InsertBlocked(p, values.email)
           /\ IF UniqueViolation(values.email)
              THEN \* psycopg2 IntegrityError, not a ValueError: rollback;
                   \* finally: release; register's second except clause
                   \* answers 500
                   /\ Finish(p, HTTPException(500, "Registration failed"))
                   /\ return_connection
                   /\ UNCHANGED <<pending, nextId>>
              ELSE /\ pending' = [pending EXCEPT ![p] = NewRow(values)]
                   /\ nextId' = nextId + 1
                   /\ pc' = [pc EXCEPT ![p] = "commit"]
                   /\ UNCHANGED <<resp, checkedOut>>
    /\ UNCHANGED <<users, now, JWT_EXPIRATION_MINUTES, tokens, req, calls>>
    /\ UNCHANGED poolvars

\* create_user: commit, return the RETURNING row and release the connection;
\* register issues the token
CreateUserCommit(p) ==
    /\ pc[p] = "commit"
    /\ LET user == Returning(pending[p])
           response == register_response(user)
       IN /\ users' = users \cup {pending[p]}
          /\ pending' = [pending EXCEPT ![p] = None]
          /\ tokens' = tokens \cup {response.body.access_token}
          /\ Finish(p, response)
          /\ return_connection
    /\ UNCHANGED <<nextId, now, JWT_EXPIRATION_MINUTES, req, calls>>
    /\ UNCHANGED poolvars

\* POST /auth/login: login() calls authenticate_user, which takes a
\* connection and a cursor
Login(p, email, password) ==
    /\ Call(p, [email |-> email, op |-> "login", password |-> password],
            "authenticate")
    /\ get_connection
    /\ UNCHANGED poolvars

\* a login that records itself in the user's row (updated_at)
AuthenticateUser_touches_row(p) ==
    /\ pc[p] = "authenticate"
    /\ LET response == login(req[p].email, req[p].password)
       IN /\ Finish(p, response)
          /\ tokens' = IF response.body = None THEN tokens
                       ELSE tokens \cup {response.body.access_token}
          /\ users' = IF response.body = None THEN users
                      ELSE {IF u.id = response.body.user.id
                            THEN [u EXCEPT !.updated_at = now + 1] ELSE u : u \in users}
    /\ return_connection
    /\ UNCHANGED <<pending, nextId, now, JWT_EXPIRATION_MINUTES, req, calls>>
    /\ UNCHANGED poolvars

\* authenticate_user's query and password check, the release of the
\* connection, then login's answer
AuthenticateUser(p) ==
    /\ pc[p] = "authenticate"
    /\ LET response == login(req[p].email, req[p].password)
       IN /\ Finish(p, response)
          /\ tokens' = IF response.body = None THEN tokens
                       ELSE tokens \cup {response.body.access_token}
    /\ return_connection
    /\ UNCHANGED <<users, pending, nextId, now, JWT_EXPIRATION_MINUTES, req, calls>>
    /\ UNCHANGED poolvars

\* GET /auth/profile with a bearer token
Profile(p, token) ==
    /\ Call(p, [op |-> "resolve", token |-> token], "resolve")
    /\ UNCHANGED checkedOut
    /\ UNCHANGED poolvars

\* get_current_user (decode_token, then get_user_by_id, which takes and
\* returns a connection) and get_profile
GetCurrentUser(p) ==
    /\ pc[p] = "resolve"
    /\ Finish(p, get_current_user(req[p].token))
    /\ UNCHANGED <<users, pending, nextId, now, JWT_EXPIRATION_MINUTES, tokens,
                   checkedOut, req, calls>>
    /\ UNCHANGED poolvars

\* account management outside this code base clears is_active of a user
Deactivate(id) ==
    /\ \E u \in users :
        /\ u.id = id
        /\ u.is_active
        /\ users' = (users \ {u}) \cup {[u EXCEPT !.is_active = FALSE]}
    /\ UNCHANGED <<pending, nextId, now, JWT_EXPIRATION_MINUTES, tokens,
                   checkedOut, pc, req, resp, calls>>
    /\ UNCHANGED poolvars

\* time passes
Tick ==
    /\ now + TickSeconds <= MaxClock
    /\ now' = now + TickSeconds
    /\ UNCHANGED <<users, pending, nextId, JWT_EXPIRATION_MINUTES, tokens,
                   checkedOut, pc, req, resp, calls>>
    /\ UNCHANGED poolvars

\* the tokens a client can present: the ones handed out, as given or altered
Presentable == {Tamper(t, k) : t \in tokens, k \in TamperKinds}

\* no handler is running
Quiet == \A q \in Procs : pc[q] = "idle"

\* every thread serves any request at any time while the store and the clock
\* move. Its state space is the product of those of RegisterSpec and
\* SessionSpec below, which restrict it to the requests a property is about.
Next ==
    \/ \E p \in Procs, n \in NameInputs, e \in EmailInputs, w \in PasswordInputs :
          Register(p, n, e, w)
    \/ \E p \in Procs : CreateUserSelect(p)
    \/ \E p \in Procs : CreateUserInsert(p)
    \/ \E p \in Procs : CreateUserCommit(p)
    \/ \E p \in Procs, e \in EmailInputs, w \in PasswordInputs : Login(p, e, w)
    \/ \E p \in Procs : AuthenticateUser(p)
    \/ \E p \in Procs, t \in Presentable : Profile(p, t)
    \/ \E p \in Procs : GetCurrentUser(p)
    \/ \E u \in users : Deactivate(u.id)
    \/ Tick

Spec == Init /\ [][Next]_vars

\* concurrent registrations: the threads run register against each other
RegisterNext ==
    \/ \E p \in Procs, n \in NameInputs, e \in EmailInputs, w \in PasswordInputs :
          Register(p, n, e, w)
    \/ \E p \in Procs : CreateUserSelect(p)
    \/ \E p \in Procs : CreateUserInsert(p)
    \/ \E p \in Procs : CreateUserCommit(p)
    \/ \E u \in users : Deactivate(u.id)

RegisterSpec == Init /\ [][RegisterNext]_vars

\* requests served one after the other, thread p1 serving /auth/register and
\* /auth/login and thread p2 serving /auth/profile, while the clock advances
\* and users are deactivated between and during them
SessionNext ==
    \/ /\ Quiet
       /\ \E n \in NameInputs, e \in EmailInputs, w \in PasswordInputs :
             Register("p1", n, e, w)
    \/ \E p \in Procs : CreateUserSelect(p)
    \/ \E p \in Procs : CreateUserInsert(p)
    \/ \E p \in Procs : CreateUserCommit(p)
    \/ /\ Quiet
       /\ \E e \in EmailInputs, w \in PasswordInputs : Login("p1", e, w)
    \/ \E p \in Procs : AuthenticateUser(p)
    \/ /\ Quiet
       /\ \E t \in Presentable : Profile("p2", t)
    \/ \E p \in Procs : GetCurrentUser(p)
    \/ \E u \in users : Deactivate(u.id)
    \/ Tick

SessionSpec == Init /\ [][SessionNext]_vars

\* ---------------------------------------------------------------- failures
\* an exception object: its class and str(e)
Exception(cls, msg) == [exc |-> cls, msg |-> msg]

\* what psycopg2 raises when the server or the connection fails
StoreErrors ==
    {Exception("OperationalError", "server closed the connection unexpectedly")}

\* what the INSERT raises beside the unique violation: a store failure, or the
\* ValueError with which psycopg2 refuses a parameter holding a NUL character
InsertErrors ==
    StoreErrors \cup
    {Exception("ValueError", "A string literal cannot contain NUL (0x00) characters.")}

\* what hash_password raises: bcrypt refuses a password with a ValueError
HashErrors == {Exception("ValueError", "password cannot be longer than 72 bytes")}

\* what create_access_token raises: jwt.encode refuses the key
TokenErrors == {Exception("TypeError", "Expected a string value")}

\* register's except clauses
register_except(e) ==
    IF IsInstance(e.exc, "ValueError")
    THEN HTTPException(400, e.msg)
    ELSE HTTPException(500, "Registration failed")

\* login's except clauses: an HTTPException is raised again as it is
login_except(e) ==
    IF IsInstance(e.exc, "HTTPException")
    THEN HTTPException(e.status, e.msg)
    ELSE HTTPException(500, "Login failed")

\* get_current_user answering a failure of the store as register and login do
get_current_user_except_500(e) ==
    IF IsInstance(e.exc, "ValueError")
    THEN HTTPException(401, e.msg)
    ELSE HTTPException(500, "Authentication failed")

\* get_current_user's except clauses
get_current_user_except(e) ==
    IF IsInstance(e.exc, "ValueError")
    THEN HTTPException(401, e.msg)
    ELSE HTTPException(401, "Authentication failed")

\* connection.rollback() in create_user's except clause
rollback(p) == pending' = [pending EXCEPT ![p] = None]

\* create_user: connection.cursor() raises. The call stands before the try
\* statement: no rollback, and the connection is not returned
CreateUserCursorRaises(p) ==
    /\ pc[p] = "select"
    /\ \E e \in StoreErrors : Finish(p, register_except(e))
    /\ UNCHANGED <<users, pending, nextId, now, JWT_EXPIRATION_MINUTES, tokens,
                   checkedOut, req, calls>>
    /\ UNCHANGED poolvars

\* create_user: the SELECT raises; except: rollback; finally: release
CreateUserSelectRaises(p) ==
    /\ pc[p] = "select"
    /\ \E e \in StoreErrors : Finish(p, register_except(e))
    /\ rollback(p)
    /\ return_connection
    /\ UNCHANGED <<users, nextId, now, JWT_EXPIRATION_MINUTES, tokens, req, calls>>
    /\ UNCHANGED poolvars

\* create_user: hash_password raises; except: rollback; finally: release
CreateUserHashRaises(p) ==
    /\ pc[p] = "insert"
    /\ \E e \in HashErrors : Finish(p, register_except(e))
    /\ rollback(p)
    /\ return_connection
    /\ UNCHANGED <<users, nextId, now, JWT_EXPIRATION_MINUTES, tokens, req, calls>>
    /\ UNCHANGED poolvars

\* create_user: the INSERT raises something else than a unique violation;
\* except: rollback; finally: release
CreateUserInsertRaises(p) ==
    /\ pc[p] = "insert"
    /\ \E e \in InsertErrors : Finish(p, register_except(e))
    /\ rollback(p)
    /\ return_connection
    /\ UNCHANGED <<users, nextId, now, JWT_EXPIRATION_MINUTES, tokens, req, calls>>
    /\ UNCHANGED poolvars

\* create_user: connection.commit() raises and nothing is committed;
\* except: rollback; finally: release
CreateUserCommitRaises(p) ==
    /\ pc[p] = "commit"
    /\ \E e \in StoreErrors : Finish(p, register_except(e))
    /\ rollback(p)
    /\ return_connection
    /\ UNCHANGED <<users, nextId, now, JWT_EXPIRATION_MINUTES, tokens, req, calls>>
    /\ UNCHANGED poolvars

\* create_user: a step has raised (or the email exists) and connection.rollback()
\* raises in the except clause: the broken connection's transaction is gone,
\* the finally clause still releases, and register sees the new exception
CreateUserRollbackRaises(p) ==
    /\ pc[p] \in {"select", "insert", "commit"}
    /\ \E e \in StoreErrors : Finish(p, register_except(e))
    /\ rollback(p)
    /\ return_connection
    /\ UNCHANGED <<users, nextId, now, JWT_EXPIRATION_MINUTES, tokens, req, calls>>
    /\ UNCHANGED poolvars

\* register: create_user has committed and returned, create_access_token raises
RegisterTokenRaises(p) ==
    /\ pc[p] = "commit"
    /\ users' = users \cup {pending[p]}
    /\ pending' = [pending EXCEPT ![p] = None]
    /\ \E e \in TokenErrors : Finish(p, register_except(e))
    /\ return_connection
    /\ UNCHANGED <<nextId, now, JWT_EXPIRATION_MINUTES, tokens, req, calls>>
    /\ UNCHANGED poolvars

\* authenticate_user: connection.cursor() raises before the try statement:
\* the connection is not returned
AuthenticateUserCursorRaises(p) ==
    /\ pc[p] = "authenticate"
    /\ \E e \in StoreErrors : Finish(p, login_except(e))
    /\ UNCHANGED <<users, pending, nextId, now, JWT_EXPIRATION_MINUTES, tokens,
                   checkedOut, req, calls>>
    /\ UNCHANGED poolvars

\* authenticate_user: the SELECT raises; finally: release
AuthenticateUserRaises(p) ==
    /\ pc[p] = "authenticate"
    /\ \E e \in StoreErrors : Finish(p, login_except(e))
    /\ return_connection
    /\ UNCHANGED <<users, pending, nextId, now, JWT_EXPIRATION_MINUTES, tokens,
                   req, calls>>
    /\ UNCHANGED poolvars

\* login: authenticate_user has returned a user, create_access_token raises
LoginTokenRaises(p) ==
    /\ pc[p] = "authenticate"
    /\ authenticate_user(req[p].email, req[p].password) # None
    /\ \E e \in TokenErrors : Finish(p, login_except(e))
    /\ return_connection
    /\ UNCHANGED <<users, pending, nextId, now, JWT_EXPIRATION_MINUTES, tokens,
                   req, calls>>
    /\ UNCHANGED poolvars

\* get_current_user reaches get_user_by_id: the token decodes and has a user_id
LooksUpUser(p) ==
    LET d == decode_token(req[p].token)
    IN d.ok /\ "user_id" \in DOMAIN d.payload

\* get_user_by_id: connection.cursor() raises before the try statement: the
\* connection taken is not returned
GetUserByIdCursorRaises(p) ==
    /\ pc[p] = "resolve"
    /\ LooksUpUser(p)
    /\ get_connection
    /\ \E e \in StoreErrors : Finish(p, get_current_user_except(e))
    /\ UNCHANGED <<users, pending, nextId, now, JWT_EXPIRATION_MINUTES, tokens,
                   req, calls>>
    /\ UNCHANGED poolvars

\* get_user_by_id: the SELECT raises; finally: release
GetUserByIdRaises(p) ==
    /\ pc[p] = "resolve"
    /\ LooksUpUser(p)
    /\ \E e \in StoreErrors : Finish(p, get_current_user_except(e))
    /\ UNCHANGED <<users, pending, nextId, now, JWT_EXPIRATION_MINUTES, tokens,
                   checkedOut, req, calls>>
    /\ UNCHANGED poolvars

\* requests served one after the other as in SessionNext, at a fixed time,
\* and any step of a request may fail
FaultNext ==
    \/ /\ Quiet
       /\ \E n \in NameInputs, e \in EmailInputs, w \in PasswordInputs :
             Register("p1", n, e, w)
    \/ \E p \in Procs : CreateUserSelect(p)
    \/ \E p \in Procs : CreateUserInsert(p)
    \/ \E p \in Procs : CreateUserCommit(p)
    \/ /\ Quiet
       /\ \E e \in EmailInputs, w \in PasswordInputs : Login("p1", e, w)
    \/ \E p \in Procs : AuthenticateUser(p)
    \/ /\ Quiet
       /\ \E t \in Presentable : Profile("p2", t)
    \/ \E p \in Procs : GetCurrentUser(p)
    \/ \E u \in users : Deactivate(u.id)
    \/ \E p \in Procs : CreateUserCursorRaises(p)
    \/ \E p \in Procs : CreateUserSelectRaises(p)
    \/ \E p \in Procs : CreateUserHashRaises(p)
    \/ \E p \in Procs : CreateUserInsertRaises(p)
    \/ \E p \in Procs : CreateUserCommitRaises(p)
    \/ \E p \in Procs : CreateUserRollbackRaises(p)
    \/ \E p \in Procs : RegisterTokenRaises(p)
    \/ \E p \in Procs : AuthenticateUserCursorRaises(p)
    \/ \E p \in Procs : AuthenticateUserRaises(p)
    \/ \E p \in Procs : LoginTokenRaises(p)
    \/ \E p \in Procs : GetUserByIdCursorRaises(p)
    \/ \E p \in Procs : GetUserByIdRaises(p)

FaultSpec == Init /\ [][FaultNext]_vars

\* ------------------------------------------------------ the connection pool
\* The handlers above see the pool as the number of connections that are out
\* of it. Here get_connection and return_connection are followed through
\* psycopg2's SimpleConnectionPool, whose methods take no lock, at the
\* places where another thread's call can come between their statements.
PoolError(msg) == Exception("PoolError", msg)

\* what get_connection and return_connection leave in resp when they return
Returned == [ok |-> TRUE]

\* the connections the server's other worker threads hold all along
OtherWorkers == {0, MaxConn - 1}

\* d[k] = v on a dict
SetItem(d, k, v) == [x \in (DOMAIN d) \cup {k} |-> IF x = k THEN v ELSE d[x]]

\* len(self._used)
UsedCount(pool) == Cardinality(DOMAIN pool.used)

\* the connection psycopg2.connect() opens: one that is not open yet
NewConnection ==
    LET open == {_pool.idle[i] : i \in DOMAIN _pool.idle}
                \cup {_pool.used[k] : k \in DOMAIN _pool.used}
                \cup {conn[p] : p \in Procs}
    IN CHOOSE c \in 1..(Cardinality(open) + 1) : c \notin open

\* the pool after startup while other threads hold connections: the first of
\* them took the idle connection, the others opened theirs
PoolInit ==
    /\ users = {}
    /\ pending = [p \in Procs |-> None]
    /\ nextId = 1
    /\ now = 0
    /\ JWT_EXPIRATION_MINUTES \in TtlInputs
    /\ tokens = {}
    /\ \E busy \in OtherWorkers :
        /\ _pool = [idle |-> IF busy = 0 THEN <<1>> ELSE <<>>,
                    keys |-> busy + 1,
                    rused |-> [c \in 1..busy |-> c + 1],
                    used |-> [k \in 2..(busy + 1) |-> k - 1]]
        /\ checkedOut = busy
    /\ _key = [p \in Procs |-> 0]
    /\ conn = [p \in Procs |-> 0]
    /\ tables = TRUE
    /\ pc = [p \in Procs |-> "idle"]
    /\ req = [p \in Procs |-> None]
    /\ resp = [p \in Procs |-> NoResp]
    /\ calls = 0

\* an operation calls Database.get_connection: the pool is set, getconn()
\* calls _getkey, whose first statement is self._keys += 1
_getkey(p) ==
    /\ Call(p, [op |-> "get_connection"], "getkey")
    /\ _pool' = [_pool EXCEPT !.keys = @ + 1]
    /\ UNCHANGED <<checkedOut, _key, conn, tables>>

\* _getkey returns self._keys as it is now, and _getconn goes on: the
\* connection used under that key, or an idle one, or PoolError when maxconn
\* connections are used, or else a call of psycopg2.connect()
_getconn(p) ==
    /\ pc[p] = "getkey"
    /\ LET k == _pool.keys
       IN IF k \in DOMAIN _pool.used
          THEN /\ conn' = [conn EXCEPT ![p] = _pool.used[k]]
               /\ _key' = [_key EXCEPT ![p] = k]
               /\ pc' = [pc EXCEPT ![p] = "holding"]
               /\ UNCHANGED <<_pool, resp>>
          ELSE IF _pool.idle # <<>>
          THEN LET c == _pool.idle[Len(_pool.idle)]
               IN /\ _pool' = [_pool EXCEPT
                                 !.idle = SubSeq(@, 1, Len(@) - 1),
                                 !.rused = SetItem(@, c, k),
                                 !.used = SetItem(@, k, c)]
                  /\ conn' = [conn EXCEPT ![p] = c]
                  /\ _key' = [_key EXCEPT ![p] = k]
                  /\ pc' = [pc EXCEPT ![p] = "holding"]
                  /\ UNCHANGED resp
          ELSE IF UsedCount(_pool) = MaxConn
          THEN /\ Finish(p, PoolError("connection pool exhausted"))
               /\ UNCHANGED <<_pool, _key, conn>>
          ELSE /\ _key' = [_key EXCEPT ![p] = k]
               /\ pc' = [pc EXCEPT ![p] = "connect"]
               /\ UNCHANGED <<_pool, conn, resp>>
    /\ checkedOut' = UsedCount(_pool')
    /\ UNCHANGED <<users, pending, nextId, now, JWT_EXPIRATION_MINUTES, tokens,
                   tables, req, calls>>

\* _connect(key): psycopg2.connect() has returned, the new connection is
\* entered under the key and handed to the caller
_connect(p) ==
    /\ pc[p] = "connect"
    /\ LET c == NewConnection
       IN /\ _pool' = [_pool EXCEPT !.rused = SetItem(@, c, _key[p]),
                                    !.used = SetItem(@, _key[p], c)]
          /\ conn' = [conn EXCEPT ![p] = c]
    /\ checkedOut' = UsedCount(_pool')
    /\ pc' = [pc EXCEPT ![p] = "holding"]
    /\ UNCHANGED <<users, pending, nextId, now, JWT_EXPIRATION_MINUTES, tokens,
                   _key, tables, req, resp, calls>>

\* the operation is over and calls Database.return_connection: putconn()
\* looks the key of the connection up, keeps the connection as idle one if
\* fewer than minconn are idle and closes it otherwise, and deletes the entries
_putconn(p) ==
    /\ pc[p] = "holding"
    /\ IF conn[p] \notin DOMAIN _pool.rused
       THEN /\ Finish(p, PoolError("trying to put unkeyed connection"))
            /\ UNCHANGED _pool
       ELSE LET k == _pool.rused[conn[p]]
                idle == IF Len(_pool.idle) < MinConn
                        THEN Append(_pool.idle, conn[p])
                        ELSE _pool.idle
            IN IF k \notin DOMAIN _pool.used
               THEN /\ Finish(p, Exception("KeyError", "del self._used[key]"))
                    /\ _pool' = [_pool EXCEPT !.idle = idle]
               ELSE /\ Finish(p, Returned)
                    /\ _pool' = [_pool EXCEPT !.idle = idle,
                                              !.rused = Del(@, conn[p]),
                                              !.used = Del(@, k)]
    /\ conn' = [conn EXCEPT ![p] = 0]
    /\ _key' = [_key EXCEPT ![p] = 0]
    /\ checkedOut' = UsedCount(_pool')
    /\ UNCHANGED <<users, pending, nextId, now, JWT_EXPIRATION_MINUTES, tokens,
                   tables, req, calls>>

\* the threads take and return connections against each other
PoolNext ==
    \/ \E p \in Procs : _getkey(p)
    \/ \E p \in Procs : _getconn(p)
    \/ \E p \in Procs : _connect(p)
    \/ \E p \in Procs : _putconn(p)

PoolSpec == PoolInit /\ [][PoolNext]_vars

\* ------------------------------------------------------ the pool's lifecycle
\* Database.connect sets the pool up and has init_tables create the schema;
\* lifespan calls it at startup, get_connection calls it when it finds the
\* pool unset. The test of cls._pool, the constructor of the pool and the
\* statements of init_tables are steps between which other threads run.

\* a process that has not connected yet, on a database without the schema
LifecycleInit ==
    /\ users = {}
    /\ pending = [p \in Procs |-> None]
    /\ nextId = 1
    /\ now = 0
    /\ JWT_EXPIRATION_MINUTES \in TtlInputs
    /\ tokens = {}
    /\ checkedOut = 0
    /\ _pool = None
    /\ _key = [p \in Procs |-> 0]
    /\ conn = [p \in Procs |-> 0]
    /\ tables = FALSE
    /\ pc = [p \in Procs |-> "idle"]
    /\ req = [p \in Procs |-> None]
    /\ resp = [p \in Procs |-> NoResp]
    /\ calls = 0

\* what psycopg2 raises while the pool opens its first connection
ConnectErrors == {Exception("OperationalError", "connection refused")}

\* what the statements of init_tables raise: CREATE EXTENSION needs a
\* privilege the role may lack, and the server or the connection may fail
InitTablesErrors ==
    StoreErrors \cup
    {Exception("InsufficientPrivilege", "permission denied to create extension")}

\* a connection that no thread and no entry of the pool refers to
FreshConnection ==
    LET open == {conn[p] : p \in Procs} \cup
                (IF _pool = None
                 THEN {}
                 ELSE {_pool.idle[i] : i \in DOMAIN _pool.idle}
                      \cup {_pool.used[k] : k \in DOMAIN _pool.used})
    IN CHOOSE c \in 1..(Cardinality(open) + 1) : c \notin open

\* SimpleConnectionPool(1, 20, DATABASE_URL): minconn connections are opened
\* and kept idle, no key has been given out
SimpleConnectionPool(c) ==
    [idle |-> <<c>>, keys |-> 0, rused |-> <<>>, used |-> <<>>]

\* thread p is inside Database.connect
Connecting(p) ==
    pc[p] \in {"connect_test", "new_pool", "init_tables", "execute",
               "return_tables", "connected"}

\* a thread calls Database.connect(): lifespan at startup, or a caller later
Database_connect(p) ==
    /\ Call(p, [op |-> "connect"], "connect_test")
    /\ UNCHANGED <<checkedOut, poolvars>>

\* an operation calls Database.get_connection(): with the pool unset it calls
\* cls.connect() first, with the pool set it goes on to cls._pool.getconn()
Database_get_connection(p) ==
    IF _pool = None
    THEN /\ Call(p, [op |-> "get_connection"], "connect_test")
         /\ UNCHANGED <<checkedOut, poolvars>>
    ELSE _getkey(p)

\* connect: if cls._pool is None
ConnectTest(p) ==
    /\ pc[p] = "connect_test"
    /\ pc' = [pc EXCEPT ![p] = IF _pool = None THEN "new_pool" ELSE "connected"]
    /\ UNCHANGED <<users, pending, nextId, now, JWT_EXPIRATION_MINUTES, tokens,
                   checkedOut, req, resp, calls, poolvars>>

\* connect: cls._pool = SimpleConnectionPool(1, 20, DATABASE_URL), whatever
\* cls._pool holds by now
NewPool(p) ==
    /\ pc[p] = "new_pool"
    /\ _pool' = SimpleConnectionPool(FreshConnection)
    /\ checkedOut' = UsedCount(_pool')
    /\ pc' = [pc EXCEPT ![p] = "init_tables"]
    /\ UNCHANGED <<users, pending, nextId, now, JWT_EXPIRATION_MINUTES, tokens,
                   _key, conn, tables, req, resp, calls>>

\* connect: the constructor raises, nothing is assigned, connect logs and
\* re-raises
NewPoolRaises(p) ==
    /\ pc[p] = "new_pool"
    /\ \E e \in ConnectErrors : Finish(p, e)
    /\ UNCHANGED <<users, pending, nextId, now, JWT_EXPIRATION_MINUTES, tokens,
                   checkedOut, req, calls, poolvars>>

\* init_tables: connection = cls.get_connection(). The pool is set, getconn()
\* gives out the next key with the last idle connection, or with a new one
InitTablesGetConnection(p) ==
    /\ pc[p] = "init_tables"
    /\ LET k == _pool.keys + 1
           c == IF _pool.idle # <<>>
                THEN _pool.idle[Len(_pool.idle)]
                ELSE FreshConnection
       IN IF _pool.idle = <<>> /\ UsedCount(_pool) = MaxConn
          THEN /\ Finish(p, PoolError("connection pool exhausted"))
               /\ _pool' = [_pool EXCEPT !.keys = k]
               /\ UNCHANGED <<_key, conn>>
          ELSE /\ _pool' = [idle |-> IF _pool.idle # <<>>
                                     THEN SubSeq(_pool.idle, 1, Len(_pool.idle) - 1)
                                     ELSE <<>>,
                            keys |-> k,
                            rused |-> SetItem(_pool.rused, c, k),
                            used |-> SetItem(_pool.used, k, c)]
               /\ conn' = [conn EXCEPT ![p] = c]
               /\ _key' = [_key EXCEPT ![p] = k]
               /\ pc' = [pc EXCEPT ![p] = "execute"]
               /\ UNCHANGED resp
    /\ checkedOut' = UsedCount(_pool')
    /\ UNCHANGED <<users, pending, nextId, now, JWT_EXPIRATION_MINUTES, tokens,
                   tables, req, calls>>

\* init_tables: the cursor is opened, the CREATE statements run and
\* connection.commit() makes the schema durable
InitTablesCommit(p) ==
    /\ pc[p] = "execute"
    /\ tables' = TRUE
    /\ pc' = [pc EXCEPT ![p] = "return_tables"]
    /\ UNCHANGED <<users, pending, nextId, now, JWT_EXPIRATION_MINUTES, tokens,
                   checkedOut, _pool, _key, conn, req, resp, calls>>

\* init_tables: cursor(), execute() or commit() raises. init_tables logs and
\* re-raises without returning its connection, and so does connect, without
\* touching cls._pool
InitTablesRaises(p) ==
    /\ pc[p] = "execute"
    /\ \E e \in InitTablesErrors : Finish(p, e)
    /\ conn' = [conn EXCEPT ![p] = 0]
    /\ _key' = [_key EXCEPT ![p] = 0]
    /\ UNCHANGED <<users, pending, nextId, now, JWT_EXPIRATION_MINUTES, tokens,
                   checkedOut, _pool, tables, req, calls>>

\* init_tables: cls.return_connection(connection) puts the connection back
\* into the pool cls._pool holds now, which raises if that pool does not
\* know the connection
InitTablesReturn(p) ==
    /\ pc[p] = "return_tables"
    /\ IF conn[p] \notin DOMAIN _pool.rused
       THEN /\ Finish(p, PoolError("trying to put unkeyed connection"))
            /\ UNCHANGED _pool
       ELSE /\ _pool' = [idle |-> IF Len(_pool.idle) < MinConn
                                  THEN Append(_pool.idle, conn[p])
                                  ELSE _pool.idle,
                         keys |-> _pool.keys,
                         rused |-> Del(_pool.rused, conn[p]),
                         used |-> Del(_pool.used, _pool.rused[conn[p]])]
            /\ pc' = [pc EXCEPT ![p] = "connected"]
            /\ UNCHANGED resp
    /\ conn' = [conn EXCEPT ![p] = 0]
    /\ _key' = [_key EXCEPT ![p] = 0]
    /\ checkedOut' = UsedCount(_pool')
    /\ UNCHANGED <<users, pending, nextId, now, JWT_EXPIRATION_MINUTES, tokens,
                   tables, req, calls>>

\* connect returns: to its caller, or into get_connection, which goes on
\* with cls._pool.getconn()
ConnectReturns(p) ==
    /\ pc[p] = "connected"
    /\ IF req[p].op = "connect"
       THEN /\ Finish(p, Returned)
            /\ UNCHANGED _pool
       ELSE /\ _pool' = [_pool EXCEPT !.keys = @ + 1]
            /\ pc' = [pc EXCEPT ![p] = "getkey"]
            /\ UNCHANGED resp
    /\ UNCHANGED <<users, pending, nextId, now, JWT_EXPIRATION_MINUTES, tokens,
                   checkedOut, _key, conn, tables, req, calls>>

\* the threads connect, take connections and return them against each other
LifecycleNext ==
    \/ \E p \in Procs : Database_connect(p)
    \/ \E p \in Procs : Database_get_connection(p)
    \/ \E p \in Procs : ConnectTest(p)
    \/ \E p \in Procs : NewPool(p)
    \/ \E p \in Procs : NewPoolRaises(p)
    \/ \E p \in Procs : InitTablesGetConnection(p)
    \/ \E p \in Procs : InitTablesCommit(p)
    \/ \E p \in Procs : InitTablesRaises(p)
    \/ \E p \in Procs : InitTablesReturn(p)
    \/ \E p \in Procs : ConnectReturns(p)
    \/ \E p \in Procs : _getconn(p)
    \/ \E p \in Procs : _connect(p)
    \/ \E p \in Procs : _putconn(p)

LifecycleSpec == LifecycleInit /\ [][LifecycleNext]_vars

\* the full names register accepts: UserCreate.full_name is any str, the
\* empty one and one made of whitespace included
FullNameInputs == NameInputs \cup {<<"n">>, <<" ">>, <<>>}

\* registrations one after the other, with any full name
FullNameNext ==
    \/ /\ Quiet
       /\ \E n \in FullNameInputs, e \in EmailInputs, w \in PasswordInputs :
             Register("p1", n, e, w)
    \/ \E p \in Procs : CreateUserSelect(p)
    \/ \E p \in Procs : CreateUserInsert(p)
    \/ \E p \in Procs : CreateUserCommit(p)

FullNameSpec == Init /\ [][FullNameNext]_vars

\* ------------------------------------------------------------- properties
RegisterDone(p) == pc[p] = "idle" /\ req[p] # None /\ req[p].op = "register"

EmailAlreadyRegistered == HTTPException(400, "Email already registered")

\* C1: the users table never holds two rows with the same lowercased email
C1_UniqueLowercasedEmail ==
    \A r1, r2 \in users : Lower(r1.email) = Lower(r2.email) => r1 = r2

\* two threads have registered emails that differ only in case, one of them
\* successfully, and a second user exists beside
C1_Witness ==
    /\ \E p, q \in Procs :
        /\ RegisterDone(p) /\ RegisterDone(q)
        /\ req[p].email # req[q].email
        /\ Lower(req[p].email) = Lower(req[q].email)
        /\ resp[p].status = 201
        /\ resp[q].status # 201
    /\ Cardinality(users) = 2

\* C2: a register call that passed the existence check and then fails (its
\* INSERT lost against a concurrent registration of the same email) answers
\* EmailAlreadyRegistered, the client error, and not an internal failure;
\* and its email is then registered exactly once
C2_ConcurrentLoserGetsClientError ==
    [][\A p \in Procs :
         (pc[p] = "insert" /\ pc'[p] = "idle") =>
            /\ resp'[p] = EmailAlreadyRegistered
            /\ Cardinality({u \in users' : u.email = Lower(req[p].email)}) = 1]_vars

\* C3: a register call whose lowercased email is already registered when it
\* checks fails with EmailAlreadyRegistered, leaves the users table as it
\* was, and exactly one row has that email
C3_SecondRegisterRejected ==
    [][\A p \in Procs :
         (/\ pc[p] = "select"
          /\ pc'[p] # "select"
          /\ \E u \in users : Lower(u.email) = Lower(req[p].email)) =>
            /\ pc'[p] = "idle"
            /\ resp'[p] = EmailAlreadyRegistered
            /\ users' = users
            /\ pending' = pending
            /\ Cardinality({u \in users' : Lower(u.email) = Lower(req[p].email)}) = 1]_vars

\* a second register, typed in another case than the stored email, was rejected
C3_Witness ==
    \E p \in Procs :
        /\ RegisterDone(p)
        /\ resp[p] = EmailAlreadyRegistered
        /\ \E u \in users : u.email = Lower(req[p].email) /\ u.email # req[p].email

\* thread p is taking the step that ends its login
LoginStep(p) == pc[p] = "authenticate" /\ pc'[p] = "idle"

\* thread p is taking the step that ends its resolve
ResolveStep(p) == pc[p] = "resolve" /\ pc'[p] = "idle"

ResolveDone(p) == pc[p] = "idle" /\ req[p] # None /\ req[p].op = "resolve"

LoginDone(p) == pc[p] = "idle" /\ req[p] # None /\ req[p].op = "login"

InvalidCredentials == HTTPException(401, "Invalid email or password")

\* the response says that validation of the token failed
TokenExpired(r) == r = HTTPException(401, "Token has expired")
TokenInvalid(r) == r = HTTPException(401, "Invalid token")

\* validation of the token succeeded
Accepted(r) == ~TokenExpired(r) /\ ~TokenInvalid(r)

\* C4: resolve of a correctly signed, unexpired token whose user has been
\* deactivated fails with Unauthenticated (401) and returns no profile
C4_DeactivatedUserUnauthenticated ==
    [][\A p \in Procs :
         (/\ ResolveStep(p)
          /\ req[p].token \in tokens
          /\ now < req[p].token.payload.exp
          /\ \E u \in users : u.id = req[p].token.payload.user_id /\ ~u.is_active) =>
            /\ resp'[p].status = 401
            /\ resp'[p].body = None]_vars

\* a token that is still valid was resolved after its user was deactivated
C4_Witness ==
    \E p \in Procs :
        /\ ResolveDone(p)
        /\ resp[p].status = 401
        /\ req[p].token \in tokens
        /\ now < req[p].token.payload.exp
        /\ \E u \in users : u.id = req[p].token.payload.user_id /\ ~u.is_active

NoActiveUser(email) == ~\E u \in users : u.email = Lower(email) /\ u.is_active

WrongPassword(email, password) ==
    \E u \in users : /\ u.email = Lower(email)
                     /\ u.is_active
                     /\ ~verify_password(password, u.password_hash)

\* C5: login with an email that has no active user and login with an active
\* user's email and a wrong password give the same answer, InvalidCredentials
\* (same status, same message), and neither changes the store
C5_LoginFailuresIndistinguishable ==
    [][\A p \in Procs :
         (/\ LoginStep(p)
          /\ \/ NoActiveUser(req[p].email)
             \/ WrongPassword(req[p].email, req[p].password)) =>
            /\ resp'[p] = InvalidCredentials
            /\ users' = users
            /\ pending' = pending
            /\ tokens' = tokens]_vars

\* a login with a registered, active email and a wrong password was refused
C5_Witness ==
    \E p \in Procs :
        /\ LoginDone(p)
        /\ resp[p] = InvalidCredentials
        /\ WrongPassword(req[p].email, req[p].password)

\* the active users that email and password authenticate
Matching(email, password) ==
    {u \in users : /\ u.email = Lower(email)
                   /\ u.is_active
                   /\ verify_password(password, u.password_hash)}

\* C6: login returns a user and a token exactly when an active user has the
\* lowercased email as stored email and a hash that verifies the password;
\* the token carries that user's id and stored email; otherwise login fails
\* with InvalidCredentials
C6_LoginExactlyWhenCredentialsMatch ==
    [][\A p \in Procs :
         LoginStep(p) =>
            LET m == Matching(req[p].email, req[p].password)
                r == resp'[p]
            IN IF m = {}
               THEN r = InvalidCredentials
               ELSE /\ r.status = 200
                    /\ \E u \in m :
                        /\ r.body.user = Columns(u, ProfileColumns)
                        /\ r.body.access_token.payload.user_id = u.id
                        /\ r.body.access_token.payload.email = u.email
                    /\ r.body.access_token \in tokens']_vars

\* a login typed in another case than the stored email succeeded
C6_Witness ==
    \E p \in Procs :
        /\ LoginDone(p)
        /\ resp[p].status = 200
        /\ resp[p].body.user.email # req[p].email
        /\ resp[p].body.access_token.payload.email = Lower(req[p].email)

\* C7 as stated: a token issued at time t with time-to-live d, d = 0
\* included, is accepted by validate at time t, and fails with TokenExpired
\* once the clock is past t + d
C7_AcceptedAtIssueEvenWithZeroTtl ==
    [][\A p \in Procs :
         (ResolveStep(p) /\ req[p].token \in tokens) =>
            LET t == req[p].token.payload.iat
                d == JWT_EXPIRATION_MINUTES * SecondsPerMinute
            IN /\ now = t => Accepted(resp'[p])
               /\ now > t + d => TokenExpired(resp'[p])]_vars

\* C7 amended: a token issued at time t with time-to-live d > 0 is accepted
\* by validate at time t, and a token with any time-to-live d >= 0 fails with
\* TokenExpired at every time past t + d
C7_AcceptedAtIssueExpiredAfterTtl ==
    [][\A p \in Procs :
         (ResolveStep(p) /\ req[p].token \in tokens) =>
            LET t == req[p].token.payload.iat
                d == JWT_EXPIRATION_MINUTES * SecondsPerMinute
            IN /\ (now = t /\ d > 0) => Accepted(resp'[p])
               /\ now > t + d => TokenExpired(resp'[p])]_vars

\* a token with a positive time-to-live was resolved at its time of issue
C7_Witness ==
    \E p \in Procs :
        /\ ResolveDone(p)
        /\ req[p].token \in tokens
        /\ req[p].token.payload.iat = now
        /\ JWT_EXPIRATION_MINUTES > 0
        /\ resp[p].status = 200

\* C8: a correctly signed token past its expiry fails with TokenExpired; a
\* token that is not as the server signed it (tampered signature, other
\* secret, other algorithm, malformed) fails with TokenInvalid, expired or
\* not, and is never accepted
C8_ExpiredAndInvalidDistinguished ==
    [][\A p \in Procs :
         ResolveStep(p) =>
            /\ (req[p].token \in tokens /\ req[p].token.payload.exp < now)
                  => TokenExpired(resp'[p])
            /\ req[p].token \notin tokens => TokenInvalid(resp'[p])]_vars

\* a token with a tampered signature, also past its expiry, was refused as invalid
C8_Witness ==
    \E p \in Procs, t \in tokens :
        /\ ResolveDone(p)
        /\ req[p].token = Tamper(t, "signature")
        /\ t.payload.exp < now
        /\ TokenInvalid(resp[p])

\* C9: after a successful register(full_name, E, password) the stored email
\* is lowercase(E), and resolving the returned token, while it is unexpired
\* and the user is active, yields the profile of that user (same id) with
\* email lowercase(E)
C9_RegisterResolveRoundTrip ==
    \A p \in Procs :
        (RegisterDone(p) /\ resp[p].status = 201) =>
            LET body == resp[p].body
                E == req[p].email
            IN /\ body.user.email = Lower(E)
               /\ \E u \in users : u.id = body.user.id /\ u.email = Lower(E)
               /\ \A u \in users :
                    (/\ u.id = body.user.id
                     /\ u.is_active
                     /\ now < body.access_token.payload.exp) =>
                        LET r == get_current_user(body.access_token)
                        IN /\ r.status = 200
                           /\ r.body.id = body.user.id
                           /\ r.body.email = Lower(E)

\* the token returned by a register typed in upper case has been resolved to
\* the profile of the registered user
C9_Witness ==
    \E p, q \in Procs :
        /\ RegisterDone(p)
        /\ resp[p].status = 201
        /\ req[p].email # Lower(req[p].email)
        /\ ResolveDone(q)
        /\ req[q].token = resp[p].body.access_token
        /\ resp[q].status = 200
        /\ resp[q].body.id = resp[p].body.user.id
        /\ resp[q].body.email = Lower(req[p].email)

\* C10: no record returned by create, authenticate, get_by_id or
\* get_by_email and no response of register, login or resolve contains the
\* password_hash field
C10_PasswordHashNeverReturned ==
    /\ \A p \in Procs :
        pending[p] # None => "password_hash" \notin DOMAIN Returning(pending[p])
    /\ \A e \in EmailInputs, w \in PasswordInputs :
        "password_hash" \notin DOMAIN authenticate_user(e, w)
    /\ \A u \in users : "password_hash" \notin DOMAIN get_user_by_id(u.id)
    /\ \A e \in EmailInputs : "password_hash" \notin DOMAIN get_user_by_email(e)
    /\ \A p \in Procs :
        /\ "password_hash" \notin DOMAIN resp[p].body
        /\ "user" \in DOMAIN resp[p].body =>
              "password_hash" \notin DOMAIN resp[p].body.user

\* a login has succeeded for a stored user, whose row holds a password hash
C10_Witness ==
    \E p \in Procs, u \in users :
        /\ LoginDone(p)
        /\ resp[p].status = 200
        /\ resp[p].body.user.id = u.id
        /\ "password_hash" \in DOMAIN u
        /\ authenticate_user(req[p].email, req[p].password) # None

\* C11: every record returned by authenticate, get_by_id or get_by_email is
\* that of a user whose is_active is true at the time of the read; for a
\* user whose is_active is false the three operations return nothing, as
\* they do for an id or an email that was never registered
C11_OnlyActiveUsersReturned ==
    /\ \A e \in EmailInputs, w \in PasswordInputs :
        LET r == authenticate_user(e, w)
        IN r # None =>
              /\ r.is_active
              /\ \E u \in users : u.id = r.id /\ u.is_active
    /\ \A e \in EmailInputs :
        LET r == get_user_by_email(e)
        IN r # None =>
              /\ r.is_active
              /\ \E u \in users : u.id = r.id /\ u.is_active
    /\ \A id \in 1..nextId :
        LET r == get_user_by_id(id)
        IN r # None =>
              /\ r.is_active
              /\ \E u \in users : u.id = r.id /\ u.is_active
    /\ \A u \in users :
        ~u.is_active =>
            /\ get_user_by_id(u.id) = None
            /\ get_user_by_email(u.email) = None
            /\ \A w \in PasswordInputs : authenticate_user(u.email, w) = None
    /\ get_user_by_id(nextId) = None
    /\ \A e \in EmailInputs :
        (~\E u \in users : u.email = Lower(e)) =>
            /\ get_user_by_email(e) = None
            /\ \A w \in PasswordInputs : authenticate_user(e, w) = None

\* a login with the right password of a deactivated user was refused
C11_Witness ==
    \E p \in Procs, u \in users :
        /\ LoginDone(p)
        /\ resp[p] = InvalidCredentials
        /\ u.email = Lower(req[p].email)
        /\ ~u.is_active
        /\ verify_password(req[p].password, u.password_hash)
        /\ get_user_by_email(req[p].email) = None

\* the threads whose operation holds a connection
Holding == {p \in Procs : pc[p] \in {"select", "insert", "commit", "authenticate"}}

\* C12: every connection taken from the pool by an operation is returned
\* when the operation ends, whether it returns or raises at any step: the
\* connections checked out are those of the operations in flight, and none
\* is checked out when no operation is in flight
C12_ConnectionsAlwaysReturned ==
    /\ checkedOut = Cardinality(Holding)
    /\ Quiet => checkedOut = 0

\* thread p is taking a step of create_user
CreateStep(p) == pc[p] \in {"select", "insert", "commit"} /\ pc'[p] # pc[p]

AllColumns == ProfileColumns \cup {"password_hash"}

InternalFailure(r) == r.status = 500

\* C14: register answers the client error EmailAlreadyRegistered only when
\* create failed because the lowercased email was already registered; every
\* other failure of create or of the token issue is answered as an internal
\* failure
C14_OnlyExistingEmailIsClientError ==
    [][\A p \in Procs :
         (CreateStep(p) /\ pc'[p] = "idle" /\ resp'[p].status # 201) =>
            IF pc[p] = "select" /\ existing_user(req[p].email) # None
            THEN resp'[p] = EmailAlreadyRegistered \/ InternalFailure(resp'[p])
            ELSE InternalFailure(resp'[p])]_vars

\* C15: resolve on a correctly signed, unexpired token whose user is absent
\* or inactive gives the caller the same outcome (same status, same message,
\* no body) as resolve on an invalid token gives
C15_InactiveUserAsInvalidToken ==
    [][\A p \in Procs :
         (/\ ResolveStep(p)
          /\ req[p].token \in tokens
          /\ now < req[p].token.payload.exp
          /\ ~\E u \in users : u.id = req[p].token.payload.user_id /\ u.is_active) =>
            \A k \in TamperKinds \ {"none"} :
                resp'[p] = get_current_user(Tamper(req[p].token, k))]_vars

\* the response is the failure Unauthenticated
Unauthenticated(r) == r.status = 401 /\ r.body = None

\* the response is the profile of an active user with this id
ProfileOfActiveUser(r, user_id) ==
    /\ r.status = 200
    /\ \E u \in users : /\ u.is_active
                        /\ u.id = user_id
                        /\ r.body = Columns(u, ProfileColumns)

\* a token the server signed that carries no user_id claim
TokenWithoutUserId ==
    jwt_encode([exp |-> now + 1, iat |-> now, type |-> "access"],
               JWT_SECRET_KEY, JWT_ALGORITHM)

\* C16: resolve has two outcomes only: it returns the profile of an active
\* user, or it fails with Unauthenticated; so for expired tokens, invalid
\* tokens, tokens without a user_id claim, tokens of absent users, and when
\* the lookup in the store fails
C16_ResolveProfileOrUnauthenticated ==
    [][/\ \A p \in Procs :
            ResolveStep(p) =>
               \/ Unauthenticated(resp'[p])
               \/ /\ req[p].token \in tokens
                  /\ ProfileOfActiveUser(resp'[p], req[p].token.payload.user_id)
       /\ Unauthenticated(get_current_user(TokenWithoutUserId))]_vars

\* a resolve of an unexpired token of an active user has failed, which only
\* a failure of the lookup brings about
C16_Witness ==
    \E p \in Procs :
        /\ ResolveDone(p)
        /\ Unauthenticated(resp[p])
        /\ req[p].token \in tokens
        /\ now < req[p].token.payload.exp
        /\ \E u \in users : u.id = req[p].token.payload.user_id /\ u.is_active

\* C17: under any interleaving a pooled connection is held by one operation
\* at most: between get_connection handing a connection to an operation and
\* that operation's return_connection, no other operation obtains it
C17_ConnectionNeverShared ==
    \A p, q \in Procs :
        (p # q /\ conn[p] # 0) => conn[q] # conn[p]

\* thread p is taking the step that ends its acquisition
AcquireStep(p) == pc[p] \in {"getkey", "connect"} /\ pc'[p] \notin {"getkey", "connect"}

\* C18: when all connections of the pool (20 at most) are checked out, a
\* further acquisition waits and does not fail, so an acquisition only ever
\* ends with a connection in hand; and no more than the maximum are
\* checked out
C18_AcquisitionWaitsWhenExhausted ==
    [][/\ \A p \in Procs :
            AcquireStep(p) => (pc'[p] = "holding" /\ conn'[p] # 0)
       /\ checkedOut' <= MaxConn]_vars

\* thread p is taking a step of a core operation
CoreStep(p) == pc'[p] # pc[p]

\* C19: no core operation changes or removes a user row: a successful create
\* adds exactly one row and leaves the others as they are; authenticate,
\* get_by_id, get_by_email, token issue and token validate leave the users
\* table unchanged; in every step the set of user ids only grows and no
\* row's id or email changes
C19_RowsOnlyAdded ==
    [][/\ \A p \in Procs :
            CoreStep(p) =>
               IF pc[p] = "commit" /\ resp'[p].status = 201
               THEN /\ users \subseteq users'
                    /\ Cardinality(users' \ users) = 1
               ELSE users' = users
       /\ \A u \in users : \E v \in users' : v.id = u.id /\ v.email = u.email
       /\ \A v \in users' :
            (\E u \in users : u.id = v.id \/ u.email = v.email) =>
                \E u \in users : u.id = v.id /\ u.email = v.email]_vars

\* a second user was added beside a first one, the first one was deactivated
\* since, and a login of the second has succeeded
C19_Witness ==
    /\ Cardinality(users) = 2
    /\ \E u \in users : u.id = 1 /\ ~u.is_active
    /\ LoginDone("p1")
    /\ resp["p1"].status = 200
    /\ resp["p1"].body.user.id = 2

\* C20: every stored user row has a full_name that is not empty and has no
\* leading or trailing whitespace, whatever full_name register accepted, one
\* made only of whitespace included
C20_FullNameNonEmptyAndTrimmed ==
    \A u \in users :
        /\ u.full_name # <<>>
        /\ Head(u.full_name) # " "
        /\ u.full_name[Len(u.full_name)] # " "

\* the email of a request belongs to a user that has been deactivated
Deactivated(email) == \E u \in users : u.email = Lower(email) /\ ~u.is_active

\* C21: a register call whose email belongs to a deactivated user when it
\* checks fails with EmailAlreadyRegistered and leaves the users table as it
\* was, although login (with any password) and the lookup by email find no
\* user for that email; and no step takes a registered email out of the
\* table, so the email stays refused
C21_DeactivatedEmailStaysTaken ==
    [][/\ \A p \in Procs :
            (/\ pc[p] = "select"
             /\ pc'[p] # "select"
             /\ Deactivated(req[p].email)) =>
               /\ \A w \in PasswordInputs :
                     authenticate_user(req[p].email, w) = None
               /\ get_user_by_email(req[p].email) = None
               /\ pc'[p] = "idle"
               /\ resp'[p] = EmailAlreadyRegistered
               /\ users' = users
               /\ pending' = pending
       /\ \A u \in users : \E v \in users' : v.email = u.email]_vars

\* the only user is deactivated and a register of that user's email, the
\* second call served, was refused
C21_Witness ==
    /\ Cardinality(users) = 1
    /\ calls = 2
    /\ RegisterDone("p1")
    /\ resp["p1"] = EmailAlreadyRegistered
    /\ Deactivated(req["p1"].email)

\* thread p is taking a step in which its Database.connect() raises
ConnectRaises(p) == Connecting(p) /\ pc'[p] = "idle" /\ resp'[p] # Returned

\* C22: whenever no thread is inside Database.connect() and the pool is set,
\* the schema of init_tables is committed; a connect() that raises leaves
\* the pool unset, and connect() on a pool that is set leaves that pool as
\* it is
C22_PoolSetOnlyWhenInitialised ==
    /\ []((_pool # None /\ \A p \in Procs : ~Connecting(p)) => tables)
    /\ [][\A p \in Procs :
            /\ ConnectRaises(p) => _pool' = None
            /\ (pc[p] = "connect_test" /\ _pool # None /\ pc'[p] # pc[p]) =>
                  _pool' = _pool]_vars

====
